---------------------------- MODULE Spec2Model ----------------------------
(***************************************************************************)
(* A model of src/MieScattering.py (the CHIS Mie scattering module).       *)
(*                                                                         *)
(* The module is a library of pure functions.  A state of the model is one *)
(* call in progress: `call' holds the function and its arguments, `ret'    *)
(* its outcome (pending, a returned value, or a raised exception) and      *)
(* `prev' the call and outcome that came before it in a pipeline of calls. *)
(* `heap' is the storage of the arrays that are passed and returned as     *)
(* objects, which matters where a result is a window onto an argument.     *)
(* Arrays are functions on 0..n-1, as numpy indexes them; a 2-D array is   *)
(* an array of rows.  Real numbers are exact rationals [num, den].         *)
(***************************************************************************)
EXTENDS Integers, Sequences, FiniteSets, TLC

VARIABLES call, ret, prev, heap

vars == <<call, ret, prev, heap>>

(***************************************************************************)
(* Bounds of the model.                                                    *)
(***************************************************************************)
MaxRes == 5
MaxFov == 3
MaxPad == 2

(***************************************************************************)
(* Outcomes of a call.                                                     *)
(***************************************************************************)
Pending == [kind |-> "pending"]
Return(v) == [kind |-> "return", value |-> v]
Raise(e) == [kind |-> "raise", exc |-> e]
NoCall == [fn |-> "none"]
NoPrev == [call |-> NoCall, ret |-> Pending]

\* Storage: `heap' maps each allocated buffer to its contents.  The specifications
\* that treat arrays as values keep it empty.
NoHeap == <<>>

\* Python's None, what a function returns when it falls off its end.
None == [py |-> "None"]

(***************************************************************************)
(* Integer helpers: true division a/b followed by floor, ceil, fix, int.   *)
(***************************************************************************)
Min(a, b) == IF a <= b THEN a ELSE b
Max(a, b) == IF a >= b THEN a ELSE b

\* np.floor(a/b), b > 0
FloorDiv(a, b) == a \div b
\* np.ceil(a/b), b > 0
CeilDiv(a, b) == -((-a) \div b)
\* np.fix(a/b) and int(a/b): rounding toward zero, b > 0
FixDiv(a, b) == IF a >= 0 THEN a \div b ELSE -((-a) \div b)

(***************************************************************************)
(* numpy arrays.                                                           *)
(***************************************************************************)
Len0(a) == Cardinality(DOMAIN a)

\* a[start:stop] with Python's treatment of negative and overlong indices
SliceIdx(i, n) == IF i < 0 THEN Max(i + n, 0) ELSE Min(i, n)
PySlice(a, start, stop) ==
    LET n  == Len0(a)
        lo == SliceIdx(start, n)
        hi == SliceIdx(stop, n)
    IN  [i \in 0..(hi - lo - 1) |-> a[lo + i]]

\* a[r0:r1, c0:c1] of a 2-D array
PySlice2(a, r0, r1, c0, c1) ==
    LET rows == PySlice(a, r0, r1)
    IN  [i \in DOMAIN rows |-> PySlice(rows[i], c0, c1)]

(***************************************************************************)
(* pad: the padded resolution and field of view.                           *)
(***************************************************************************)
pad(res, fov, padding) == <<res * (padding * 2 + 1), fov * (padding * 2 + 1)>>

(***************************************************************************)
(* crop_field: the centre cropsize x cropsize block of E.                  *)
(***************************************************************************)
crop_startIdx_ceil(imsize, cropsize) == FixDiv(imsize, 2) - CeilDiv(cropsize, 2)

crop_startIdx(imsize, cropsize) == FixDiv(imsize, 2) - FloorDiv(cropsize, 2)

crop_field(res, E) ==
    LET imsize   == Len0(E)
        cropsize == res
        startIdx == crop_startIdx(imsize, cropsize)
        endIdx   == startIdx + cropsize - 1
    IN  PySlice2(E, startIdx, endIdx + 1, startIdx, endIdx + 1)

\* A square field of the given side whose sample (i, j) carries its own
\* position, so that a cropped block shows where each sample came from.
TaggedField(side) == [i \in 0..(side - 1) |-> [j \in 0..(side - 1) |-> <<i, j>>]]

(***************************************************************************)
(* Calls of the geometry pipeline: pad, then crop_field on a field of the  *)
(* padded size.                                                            *)
(***************************************************************************)
PadCalls ==
    { [fn |-> "pad", res |-> r, fov |-> f, padding |-> p] :
        r \in 1..MaxRes, f \in 1..MaxFov, p \in 0..MaxPad }

CallPad ==
    /\ call.fn = "pad"
    /\ ret = Pending
    /\ ret' = Return(pad(call.res, call.fov, call.padding))
    /\ UNCHANGED <<call, prev, heap>>

CallCropField ==
    /\ call.fn = "pad"
    /\ ret.kind = "return"
    /\ call' = [fn |-> "crop_field", res |-> call.res,
                E |-> TaggedField(ret.value[1])]
    /\ ret' = Return(crop_field(call.res, TaggedField(ret.value[1])))
    /\ prev' = [call |-> call, ret |-> ret]
    /\ UNCHANGED heap

InitCrop == call \in PadCalls /\ ret = Pending /\ prev = NoPrev /\ heap = NoHeap
NextCrop == CallPad \/ CallCropField
SpecCrop == InitCrop /\ [][NextCrop]_vars

(***************************************************************************)
(* C1: for every res >= 1 and padding p, crop_field on a square field of   *)
(* side pad(res, fov, p)[0] = res*(2p+1) returns exactly the res x res     *)
(* block of rows and columns p*res .. p*res+res-1, whose centre sample is  *)
(* the field's centre sample (index floor(side/2)).                        *)
(***************************************************************************)
C1_CropRecoversCentre ==
    (call.fn = "crop_field" /\ ret.kind = "return") =>
        LET res  == call.res
            p    == prev.call.padding
            side == Len0(call.E)
            out  == ret.value
        IN  /\ side = res * (2 * p + 1)
            /\ DOMAIN out = 0..(res - 1)
            /\ \A r \in 0..(res - 1) :
                  /\ DOMAIN out[r] = 0..(res - 1)
                  /\ \A c \in 0..(res - 1) :
                        out[r][c] = <<p * res + r, p * res + c>>
            /\ out[res \div 2][res \div 2] = <<side \div 2, side \div 2>>

C1_Witness ==
    /\ call.fn = "crop_field"
    /\ ret.kind = "return"
    /\ call.res = 3
    /\ prev.call.padding = 2
    /\ ret.value[0][0] = <<6, 6>>

(***************************************************************************)
(* Exact rationals [num, den] with den > 0, and square roots of them kept  *)
(* as the radicand: Sqrt(q) stands for the non-negative root of q >= 0.    *)
(***************************************************************************)
Rat(n, d) == [num |-> n, den |-> d]
RAdd(a, b) == Rat(a.num * b.den + b.num * a.den, a.den * b.den)
RSub(a, b) == Rat(a.num * b.den - b.num * a.den, a.den * b.den)
RMul(a, b) == Rat(a.num * b.num, a.den * b.den)
RSq(a) == RMul(a, a)
REq(a, b) == a.num * b.den = b.num * a.den
RLe(a, b) == a.num * b.den <= b.num * a.den
RLt(a, b) == a.num * b.den < b.num * a.den
RZero == Rat(0, 1)

Sqrt(q) == [sqrt_of |-> q]
\* sqrt(q) <= x and sqrt(q) >= x for a rational x
SqrtLe(s, x) == x.num >= 0 /\ RLe(s.sqrt_of, RSq(x))
SqrtGe(s, x) == x.num <= 0 \/ RLe(RSq(x), s.sqrt_of)

(***************************************************************************)
(* np.fft.fftfreq(n, d): the sample frequencies in DFT order,              *)
(* [0, 1, ..., (n-1)//2, -(n//2), ..., -1] / (d*n), d a rational spacing.  *)
(***************************************************************************)
fftfreq(n, d) ==
    LET N       == ((n - 1) \div 2) + 1
        results == [m \in 0..(n - 1) |-> IF m < N THEN m ELSE -(n \div 2) + (m - N)]
    IN  [m \in 0..(n - 1) |-> Rat(results[m] * d.den, n * d.num)]

\* np.meshgrid(fx, fy): kx[i][j] = fx[j], ky[i][j] = fy[i]
meshgrid_x(fx, fy) == [i \in DOMAIN fy |-> [j \in DOMAIN fx |-> fx[j]]]
meshgrid_y(fx, fy) == [i \in DOMAIN fy |-> [j \in DOMAIN fx |-> fy[i]]]

(***************************************************************************)
(* bandpass_filter: the annulus NA_in <= |k| <= NA_out in frequency space. *)
(***************************************************************************)
bandpass_mask_strict(res, fov, NA_in, NA_out) ==
    LET fx   == fftfreq(res, Rat(fov, res))
        kx   == meshgrid_x(fx, fx)
        ky   == meshgrid_y(fx, fx)
        kxky == [i \in 0..(res - 1) |-> [j \in 0..(res - 1) |->
                    Sqrt(RAdd(RSq(kx[i][j]), RSq(ky[i][j])))]]
    IN  [i \in 0..(res - 1) |-> [j \in 0..(res - 1) |->
            SqrtLe(kxky[i][j], NA_out) /\ ~SqrtLe(kxky[i][j], NA_in)]]

bandpass_mask(res, fov, NA_in, NA_out) ==
    LET fx       == fftfreq(res, Rat(fov, res))
        kx       == meshgrid_x(fx, fx)
        ky       == meshgrid_y(fx, fx)
        kxky     == [i \in 0..(res - 1) |-> [j \in 0..(res - 1) |->
                        Sqrt(RAdd(RSq(kx[i][j]), RSq(ky[i][j])))]]
        mask_out == [i \in 0..(res - 1) |-> [j \in 0..(res - 1) |->
                        SqrtLe(kxky[i][j], NA_out)]]
        mask_in  == [i \in 0..(res - 1) |-> [j \in 0..(res - 1) |->
                        SqrtGe(kxky[i][j], NA_in)]]
    IN  [i \in 0..(res - 1) |-> [j \in 0..(res - 1) |->
            mask_out[i][j] /\ mask_in[i][j]]]

bandpass_filter(res, fov, NA_in, NA_out, dimention) ==
    LET mask == bandpass_mask(res, fov, NA_in, NA_out)
        bpf  == [i \in 0..(res - 1) |-> [j \in 0..(res - 1) |->
                    IF mask[i][j] THEN 1 ELSE 0]]
    IN  IF dimention = 2 THEN Return(bpf)
        ELSE IF dimention = 1 THEN Return(PySlice(bpf[0], 0, FixDiv(res, 2) + 1))
        ELSE Raise("ValueError")

(***************************************************************************)
(* get_phase_shift: the propagation kernel exp(1j*kz*d).  A value of the   *)
(* kernel is kept in polar form: exp(1j*t) for a real t has modulus 1 and  *)
(* argument t = sign * sqrt(argSq); exp(0) is the number 1.                *)
(***************************************************************************)
Sign(x) == IF x > 0 THEN 1 ELSE IF x < 0 THEN -1 ELSE 0

\* np.exp(1j * kz * d) for kz = Sqrt(q) and an integer distance d
ExpI(kz, d) ==
    LET t2 == RMul(kz.sqrt_of, Rat(d * d, 1))
    IN  [modulus |-> 1, argSq |-> t2,
         argSign |-> IF t2.num = 0 THEN 0 ELSE Sign(d)]

get_phase_shift(res, fov, k, d) ==
    LET fx    == fftfreq(res, Rat(fov, res))
        fy    == fftfreq(res, Rat(fov, res))
        kx    == meshgrid_x(fx, fy)
        ky    == meshgrid_y(fx, fy)
        kxky0 == [i \in 0..(res - 1) |-> [j \in 0..(res - 1) |->
                    RAdd(RSq(kx[i][j]), RSq(ky[i][j]))]]
        mask  == [i \in 0..(res - 1) |-> [j \in 0..(res - 1) |->
                    RLt(RSq(k), kxky0[i][j])]]
        kxky  == [i \in 0..(res - 1) |-> [j \in 0..(res - 1) |->
                    IF mask[i][j] THEN RZero ELSE kxky0[i][j]]]
        kz0   == [i \in 0..(res - 1) |-> [j \in 0..(res - 1) |->
                    Sqrt(RSub(RSq(k), kxky[i][j]))]]
        kz    == [i \in 0..(res - 1) |-> [j \in 0..(res - 1) |->
                    IF mask[i][j] THEN Sqrt(RZero) ELSE kz0[i][j]]]
    IN  [i \in 0..(res - 1) |-> [j \in 0..(res - 1) |-> ExpI(kz[i][j], d)]]

(***************************************************************************)
(* Calls of the frequency-domain masks.                                    *)
(***************************************************************************)
MaxNA == 4
NADen == 2
MaxK == 3
MaxD == 2
Dimentions == 0..3

BandpassCalls ==
    { [fn |-> "bandpass_filter", res |-> r, fov |-> f,
       NA_in |-> Rat(a, NADen), NA_out |-> Rat(b, NADen), dimention |-> dm] :
        r \in 1..MaxRes, f \in 1..MaxFov, a \in 0..MaxNA, b \in 0..MaxNA,
        dm \in Dimentions }

PhaseCalls ==
    { [fn |-> "get_phase_shift", res |-> r, fov |-> f, k |-> Rat(k, NADen), d |-> d] :
        r \in 1..MaxRes, f \in 1..MaxFov, k \in 1..MaxK, d \in 1..MaxD }

CallBandpassFilter ==
    /\ call.fn = "bandpass_filter"
    /\ ret = Pending
    /\ ret' = bandpass_filter(call.res, call.fov, call.NA_in, call.NA_out,
                              call.dimention)
    /\ UNCHANGED <<call, prev, heap>>

CallGetPhaseShift ==
    /\ call.fn = "get_phase_shift"
    /\ ret = Pending
    /\ ret' = Return(get_phase_shift(call.res, call.fov, call.k, call.d))
    /\ UNCHANGED <<call, prev, heap>>

InitMask == call \in (BandpassCalls \cup PhaseCalls) /\ ret = Pending /\ prev = NoPrev /\ heap = NoHeap
NextMask == CallBandpassFilter \/ CallGetPhaseShift
SpecMask == InitMask /\ [][NextMask]_vars

\* The frequency numerator of DFT index m: m over the non-negative half of
\* the ordering, m - res over the rest (the frequency is this over fov).
FreqIndex(m, res) == IF 2 * m < res THEN m ELSE m - res

(***************************************************************************)
(* C2: for 0 <= NA_in <= NA_out every entry of the 2-D mask returned by    *)
(* bandpass_filter is 0 or 1, entry (i, j) is 1 exactly when               *)
(* NA_in <= sqrt(kx_j^2 + ky_i^2) <= NA_out with the frequency of index m  *)
(* being m/fov on the non-negative half and (m-res)/fov on the rest, and   *)
(* mask*mask = mask elementwise.                                           *)
(***************************************************************************)
C2_BandpassAnnulus ==
    (/\ call.fn = "bandpass_filter"
     /\ call.dimention = 2
     /\ RLe(call.NA_in, call.NA_out)
     /\ ret # Pending) =>
        /\ ret.kind = "return"
        /\ DOMAIN ret.value = 0..(call.res - 1)
        /\ \A i \in 0..(call.res - 1) :
              /\ DOMAIN ret.value[i] = 0..(call.res - 1)
              /\ \A j \in 0..(call.res - 1) :
                    LET m    == ret.value[i][j]
                        kxj  == FreqIndex(j, call.res)
                        kyi  == FreqIndex(i, call.res)
                        \* |k|^2 * fov^2 and NA^2 * fov^2, over NA.den^2
                        k2   == (kxj * kxj + kyi * kyi) * call.NA_in.den * call.NA_in.den
                        in2  == call.NA_in.num * call.NA_in.num * call.fov * call.fov
                        out2 == call.NA_out.num * call.NA_out.num * call.fov * call.fov
                    IN  /\ m \in {0, 1}
                        /\ (m = 1) <=> (in2 <= k2 /\ k2 <= out2)
                        /\ m * m = m

C2_Witness ==
    /\ call.fn = "bandpass_filter"
    /\ call.dimention = 2
    /\ call.res = 4
    /\ call.fov = 2
    /\ call.NA_in = Rat(1, NADen)
    /\ call.NA_out = Rat(2, NADen)
    /\ ret.kind = "return"
    /\ ret.value[0][0] = 0
    /\ ret.value[0][1] = 1
    /\ ret.value[0][2] = 1
    /\ ret.value[1][3] = 1
    /\ ret.value[2][2] = 0

(***************************************************************************)
(* C8: the mask returned by get_phase_shift is zero at every evanescent    *)
(* sample (kx^2 + ky^2 > k^2) and exp(i*kz*d), kz = sqrt(k^2-(kx^2+ky^2)), *)
(* at every other sample.                                                  *)
(***************************************************************************)
C8_PhaseZeroWhereEvanescent ==
    (call.fn = "get_phase_shift" /\ ret.kind = "return") =>
        \A i \in 0..(call.res - 1) : \A j \in 0..(call.res - 1) :
            LET kxj  == Rat(FreqIndex(j, call.res), call.fov)
                kyi  == Rat(FreqIndex(i, call.res), call.fov)
                kxky == RAdd(RSq(kxj), RSq(kyi))
                ph   == ret.value[i][j]
            IN  IF RLt(RSq(call.k), kxky)
                THEN ph.modulus = 0
                ELSE /\ ph.modulus = 1
                     /\ REq(ph.argSq,
                            RMul(RSub(RSq(call.k), kxky), Rat(call.d * call.d, 1)))

(***************************************************************************)
(* numpy arrays of any number of axes: a shape and a value per index       *)
(* tuple.  ndim is the length of the shape.                                *)
(***************************************************************************)
Tensor(shape, val) == [shape |-> shape, val |-> val]
ndim(x) == Len(x.shape)

Indices(shape) ==
    IF Len(shape) = 0 THEN {<<>>}
    ELSE IF Len(shape) = 1 THEN {<<i>> : i \in 0..(shape[1] - 1)}
    ELSE IF Len(shape) = 2
         THEN {<<i, j>> : i \in 0..(shape[1] - 1), j \in 0..(shape[2] - 1)}
    ELSE {<<i, j, k>> : i \in 0..(shape[1] - 1), j \in 0..(shape[2] - 1),
                        k \in 0..(shape[3] - 1)}

\* numpy broadcasting of two shapes, aligned at their last axes
BDim(s, p, n) == IF p <= n - Len(s) THEN 1 ELSE s[p - (n - Len(s))]
BCompatible(s1, s2) ==
    LET n == Max(Len(s1), Len(s2))
    IN  \A p \in 1..n :
            \/ BDim(s1, p, n) = BDim(s2, p, n)
            \/ BDim(s1, p, n) = 1
            \/ BDim(s2, p, n) = 1
BShape(s1, s2) ==
    LET n == Max(Len(s1), Len(s2))
    IN  [p \in 1..n |-> IF BDim(s1, p, n) = 1 THEN BDim(s2, p, n)
                        ELSE BDim(s1, p, n)]
BProj(idx, s) ==
    LET off == Len(idx) - Len(s)
    IN  [q \in 1..Len(s) |-> IF s[q] = 1 THEN 0 ELSE idx[q + off]]

\* A * B elementwise: a ValueError when the shapes do not broadcast
BMap(Op(_, _), A, B) ==
    IF BCompatible(A.shape, B.shape)
    THEN LET sh == BShape(A.shape, B.shape)
         IN  Return(Tensor(sh, [idx \in Indices(sh) |->
                 Op(A.val[BProj(idx, A.shape)], B.val[BProj(idx, B.shape)])]))
    ELSE Raise("ValueError")

\* the product of two special-function terms, kept as a term
Mul(x, y) == [mul |-> <<x, y>>]
BMul(A, B) == BMap(Mul, A, B)

\* a 1-D array as a tensor
AsTensor1(a) == Tensor(<<Len0(a)>>, [idx \in Indices(<<Len0(a)>>) |-> a[idx[1]]])
\* a square 2-D array (an array of rows) as a tensor
AsTensor2(a) ==
    Tensor(<<Len0(a), Len0(a)>>,
           [idx \in Indices(<<Len0(a), Len0(a)>>) |-> a[idx[1]][idx[2]]])

(***************************************************************************)
(* get_order: the order vector 0 .. l_max,                                 *)
(* l_max = ceil(x + 4*x^(1/3) + 2) with x = 2*pi*a/lambDa.  np.pi is the   *)
(* rational PiNum/PiDen, so x = XNum/XDen, and an integer L is at least    *)
(* x + 4*x^(1/3) + 2 when t = L - 2 - x >= 0 and t^3 >= 64*x.              *)
(***************************************************************************)
PiNum == 22
PiDen == 7

XNum(a, lambDa) == 2 * PiNum * a
XDen(a, lambDa) == PiDen * lambDa

AtLeastOrderBound(L, a, lambDa) ==
    LET X == XNum(a, lambDa)
        Y == XDen(a, lambDa)
        T == (L - 2) * Y - X
    IN  T >= 0 /\ T * T * T >= 64 * X * Y * Y

\* math.ceil: the least integer that is at least the bound
RECURSIVE CeilFrom(_, _, _)
CeilFrom(L, a, lambDa) ==
    IF AtLeastOrderBound(L, a, lambDa) THEN L ELSE CeilFrom(L + 1, a, lambDa)

l_max_of(a, lambDa) == CeilFrom(0, a, lambDa)

\* np.arange(start, stop, 1)
arange(start, stop) == [i \in 0..(stop - start - 1) |-> start + i]

get_order_short(a, lambDa) == arange(0, l_max_of(a, lambDa))

get_order(a, lambDa) == arange(0, l_max_of(a, lambDa) + 1)

(***************************************************************************)
(* horizontal_canvas: the magnitude of the position vector of each pixel.  *)
(***************************************************************************)
\* np.linspace(-h, h, num)
linspace(h, num) ==
    [i \in 0..(num - 1) |->
        IF num = 1 THEN Rat(-h, 1) ELSE Rat(-h * (num - 1) + i * 2 * h, num - 1)]

canvas_center(res) == CeilDiv(res, 2)

horizontal_canvas(res, fov, z, dimention) ==
    LET halfgrid == CeilDiv(fov, 2)
        zz       == Rat(z * z, 1)
    IN  IF dimention = 2
        THEN LET gx == linspace(halfgrid, res)
                 gy == gx
             IN  Return(Tensor(<<res, res>>, [idx \in Indices(<<res, res>>) |->
                    Sqrt(RAdd(RAdd(RSq(gx[idx[2]]), RSq(gy[idx[1]])), zz))]))
        ELSE IF dimention = 1
        THEN LET center == canvas_center(res)
                 gx     == PySlice(linspace(halfgrid, res), 0, center + 1)
                 gy     == gx[0]
                 n      == Len0(gx)
             IN  Return(Tensor(<<n>>, [idx \in Indices(<<n>>) |->
                    Sqrt(RAdd(RAdd(RSq(gx[idx[1]]), RSq(gy)), zz))]))
        ELSE Raise("ValueError")

(***************************************************************************)
(* Values of the special functions (scipy.special) inside the tensors are  *)
(* kept as terms naming the function and its arguments; a sample that the  *)
(* code sets to zero is the term Zero.                                     *)
(***************************************************************************)
Zero == [const |-> 0]
Range0(a) == {a[i] : i \in DOMAIN a}

\* the index of a tensor with one more (last) axis: geometry index + column
Geom(idx) == SubSeq(idx, 1, Len(idx) - 1)
Last(idx) == idx[Len(idx)]

(***************************************************************************)
(* asymptotic_hankel: exp(1j*(x - i*pi/2))/(1j*x) in column i, for every   *)
(* order i of l.  The order is used as the column index.                   *)
(***************************************************************************)
asymptotic_hankel(x, l) ==
    IF ndim(x) \notin {1, 2} THEN Raise("UnboundLocalError")
    ELSE IF \E v \in Range0(l) : v >= Len0(l) THEN Raise("IndexError")
    ELSE LET sh == x.shape \o <<Len0(l)>>
         IN  Return(Tensor(sh, [idx \in Indices(sh) |->
                IF Last(idx) \in Range0(l)
                THEN [asymptotic_hankel |-> x.val[Geom(idx)], order |-> Last(idx)]
                ELSE Zero]))

(***************************************************************************)
(* asymptotic_legendre: Legendre polynomials of cos(theta) over the        *)
(* frequency grid, zero where kx^2 + ky^2 > 1.                             *)
(***************************************************************************)
legendre_half(res) == FixDiv(res, 2) + 1

asymptotic_legendre(res, fov, l, dimention) ==
    IF dimention \notin {1, 2} THEN Raise("ValueError")
    ELSE
    LET fxAll == fftfreq(res, Rat(fov, res))
        fx    == IF dimention = 2 THEN fxAll
                 ELSE PySlice(fxAll, 0, legendre_half(res))
        geom  == IF dimention = 2 THEN <<res, res>> ELSE <<Len0(fx)>>
        kxky0 == [g \in Indices(geom) |->
                    IF dimention = 2
                    THEN RAdd(RSq(fx[g[2]]), RSq(fx[g[1]]))
                    ELSE RAdd(RSq(fx[g[1]]), RSq(fx[0]))]
        mask  == [g \in Indices(geom) |-> RLt(Rat(1, 1), kxky0[g])]
        kxky  == [g \in Indices(geom) |-> IF mask[g] THEN RZero ELSE kxky0[g]]
        cos_theta == [g \in Indices(geom) |->
                        IF mask[g] THEN Sqrt(RZero)
                        ELSE Sqrt(RSub(Rat(1, 1), kxky[g]))]
        sh    == geom \o <<Len0(l)>>
    IN  Return(Tensor(sh, [idx \in Indices(sh) |->
            IF mask[Geom(idx)] THEN Zero
            ELSE [eval_legendre |-> l[Last(idx)], x |-> cos_theta[Geom(idx)]]]))

(***************************************************************************)
(* near_filed_legendre: Legendre polynomials of the cosine between each    *)
(* position vector of the 2-D grid and the direction k_dir.                *)
(***************************************************************************)
near_filed_legendre(res, fov, z, k_dir, l, dimention) ==
    LET halfgrid == CeilDiv(fov, 2)
        gx == linspace(halfgrid, res)
        gy == gx
        sh == <<res, res, Len0(l)>>
    IN  Return(Tensor(sh, [idx \in Indices(sh) |->
            [eval_legendre |-> l[idx[3]],
             x |-> [dot |-> <<gx[idx[2]], gy[idx[1]], z>>, k_dir |-> k_dir]]]))

(***************************************************************************)
(* scatter_matrix: Hankel x Legendre x (2l+1) i^l over the order axis.     *)
(***************************************************************************)
\* the outcome of f applied to a returned value, or the exception raised
Then(o, F(_)) == IF o.kind = "return" THEN F(o.value) ELSE o

scatter_matrix(res, fov, z, a, lambDa, dimention, option, k_dir) ==
    LET l    == get_order(a, lambDa)
        L    == Len0(l)
        rMag == horizontal_canvas(res, fov, z, dimention)
        kMag == Rat(2 * PiNum, PiDen * lambDa)
        kr(r) == Tensor(r.shape, [g \in Indices(r.shape) |->
                    Sqrt(RMul(RSq(kMag), r.val[g].sqrt_of))])
        alpha == Tensor(<<L>>, [idx \in Indices(<<L>>) |->
                    [coef |-> 2 * l[idx[1]] + 1, ipow |-> l[idx[1]] % 4]])
        spherical_hankel(x) ==
            LET sh == x.shape \o <<L>>
            IN  Return(Tensor(sh, [idx \in Indices(sh) |->
                    [spherical_hankel |-> x.val[Geom(idx)], order |-> l[Last(idx)]]]))
        \* pl_cos_theta is computed first, then hlkr, then their product
        combine(pl_cos_theta, hlkr) ==
            LET withHl(pl) == LET times(h) == BMul(h, pl) IN Then(hlkr, times)
                withAlpha(hp) == BMul(hp, alpha)
            IN  Then(Then(pl_cos_theta, withHl), withAlpha)
        body(r) ==
            IF option = "far"
            THEN combine(asymptotic_legendre(res, fov, l, dimention),
                         asymptotic_hankel(kr(r), l))
            ELSE IF option = "near"
            THEN combine(near_filed_legendre(res, fov, z, k_dir, l, dimention),
                         spherical_hankel(kr(r)))
            ELSE Raise("ValueError")
    IN  Then(rMag, body)

(***************************************************************************)
(* np.fft.fftshift and np.fft.ifftshift over every axis: rotations of the  *)
(* indices by n//2 and by -(n//2).                                         *)
(***************************************************************************)
fftshift(x) ==
    Tensor(x.shape, [idx \in Indices(x.shape) |->
        x.val[[q \in 1..Len(idx) |->
            (idx[q] + x.shape[q] - (x.shape[q] \div 2)) % x.shape[q]]]])

ifftshift(x) ==
    Tensor(x.shape, [idx \in Indices(x.shape) |->
        x.val[[q \in 1..Len(idx) |->
            (idx[q] + (x.shape[q] \div 2)) % x.shape[q]]]])

(***************************************************************************)
(* far_field: the scatter tensor contracted with the coefficient vector B  *)
(* over the order axis, times scale.  B = coeff_b(l, k, n, a) has one      *)
(* entry per order; here the entry is the term naming it.                  *)
(***************************************************************************)
far_field(res, fov, z, a, n, lambDa, scale, dimention) ==
    LET l == get_order(a, lambDa)
        L == Len0(l)
        k == Rat(2 * PiNum, PiDen * lambDa)
        B == Tensor(<<L>>, [idx \in Indices(<<L>>) |->
                [coeff_b |-> l[idx[1]], k |-> k, n |-> n, a |-> a]])
        scatter == scatter_matrix(res, fov, z, a, lambDa, dimention, "far", None)
        contract(Sum) ==
            LET geom == SubSeq(Sum.shape, 1, Len(Sum.shape) - 1)
                cols == Sum.shape[Len(Sum.shape)]
                E_far_shifted ==
                    Tensor(geom, [g \in Indices(geom) |->
                        [sum |-> [c \in 0..(cols - 1) |-> Sum.val[g \o <<c>>]],
                         scale |-> scale]])
            IN  IF dimention = 2 THEN Return(ifftshift(E_far_shifted))
                ELSE IF dimention = 1 THEN Return(E_far_shifted)
                ELSE Raise("UnboundLocalError")
        timesB(sc) == BMul(sc, B)
    IN  Then(Then(scatter, timesB), contract)

(***************************************************************************)
(* Calls of the scattering functions.                                      *)
(***************************************************************************)
MaxLam == 3
Options == {"far", "near", "mid"}
KDir == <<0, 0, 1>>

CanvasCalls ==
    { [fn |-> "horizontal_canvas", res |-> r, fov |-> f, z |-> 1, dimention |-> dm] :
        r \in 1..MaxRes, f \in 1..MaxFov, dm \in Dimentions }

LegendreCalls ==
    { [fn |-> "asymptotic_legendre", res |-> r, fov |-> f,
       l |-> get_order(1, lam), dimention |-> dm] :
        r \in 1..MaxRes, f \in 1..MaxFov, lam \in 1..MaxLam, dm \in Dimentions }

ScatterCalls ==
    { [fn |-> "scatter_matrix", res |-> r, fov |-> f, z |-> 1, a |-> 1,
       lambDa |-> lam, dimention |-> dm, option |-> o, k_dir |-> KDir] :
        r \in 1..MaxRes, f \in 1..MaxFov, lam \in 1..MaxLam, dm \in Dimentions,
        o \in Options }

FarFieldCalls ==
    { [fn |-> "far_field", res |-> r, fov |-> f, z |-> 1, a |-> 1, n |-> 1,
       lambDa |-> lam, scale |-> 1, dimention |-> dm] :
        r \in 1..MaxRes, f \in 1..MaxFov, lam \in 1..MaxLam, dm \in Dimentions }

CallHorizontalCanvas ==
    /\ call.fn = "horizontal_canvas"
    /\ ret = Pending
    /\ ret' = horizontal_canvas(call.res, call.fov, call.z, call.dimention)
    /\ UNCHANGED <<call, prev, heap>>

CallAsymptoticLegendre ==
    /\ call.fn = "asymptotic_legendre"
    /\ ret = Pending
    /\ ret' = asymptotic_legendre(call.res, call.fov, call.l, call.dimention)
    /\ UNCHANGED <<call, prev, heap>>

CallScatterMatrix ==
    /\ call.fn = "scatter_matrix"
    /\ ret = Pending
    /\ ret' = scatter_matrix(call.res, call.fov, call.z, call.a, call.lambDa,
                             call.dimention, call.option, call.k_dir)
    /\ UNCHANGED <<call, prev, heap>>

CallFarField ==
    /\ call.fn = "far_field"
    /\ ret = Pending
    /\ ret' = far_field(call.res, call.fov, call.z, call.a, call.n, call.lambDa,
                        call.scale, call.dimention)
    /\ UNCHANGED <<call, prev, heap>>

InitScatter ==
    /\ call \in (CanvasCalls \cup LegendreCalls \cup ScatterCalls \cup FarFieldCalls)
    /\ ret = Pending
    /\ prev = NoPrev
    /\ heap = NoHeap
NextScatter ==
    \/ CallHorizontalCanvas
    \/ CallAsymptoticLegendre
    \/ CallScatterMatrix
    \/ CallFarField
SpecScatter == InitScatter /\ [][NextScatter]_vars

(***************************************************************************)
(* C3: for every res >= 1, horizontal_canvas with dimention = 1 returns a  *)
(* radial sequence of exactly floor(res/2) + 1 samples.                    *)
(***************************************************************************)
C3_CanvasHalfLine ==
    (call.fn = "horizontal_canvas" /\ call.dimention = 1 /\ ret # Pending) =>
        /\ ret.kind = "return"
        /\ ret.value.shape = <<(call.res \div 2) + 1>>

(***************************************************************************)
(* C9: in far-field mode, for dimention in {1, 2} and every res >= 2, the  *)
(* Hankel tensor built from the canvas and the Legendre tensor have the    *)
(* same shape, so scatter_matrix and far_field return a result instead of  *)
(* failing on a shape mismatch; for dimention 1 the far_field result has   *)
(* floor(res/2) + 1 samples.                                               *)
(***************************************************************************)
C9_FarFieldShapesAgree ==
    (/\ call.fn \in {"scatter_matrix", "far_field"}
     /\ call.fn = "scatter_matrix" => call.option = "far"
     /\ call.dimention \in {1, 2}
     /\ call.res >= 2
     /\ ret # Pending) =>
        /\ ret.kind = "return"
        /\ (call.fn = "far_field" /\ call.dimention = 1) =>
              ret.value.shape = <<(call.res \div 2) + 1>>

(***************************************************************************)
(* Calls of get_order: a call, then a call with a radius at least as large *)
(* and the same wavelength, or asymptotic_hankel on the returned orders.   *)
(***************************************************************************)
MaxA == 6

GetOrderCalls ==
    { [fn |-> "get_order", a |-> a, lambDa |-> lam] :
        a \in 1..MaxA, lam \in 1..MaxLam }

CallGetOrder ==
    /\ call.fn = "get_order"
    /\ ret = Pending
    /\ ret' = Return(get_order(call.a, call.lambDa))
    /\ UNCHANGED <<call, prev, heap>>

CallGetOrderLarger ==
    /\ call.fn = "get_order"
    /\ ret.kind = "return"
    /\ prev = NoPrev
    /\ \E a2 \in call.a..MaxA :
          /\ call' = [fn |-> "get_order", a |-> a2, lambDa |-> call.lambDa]
          /\ ret' = Return(get_order(a2, call.lambDa))
    /\ prev' = [call |-> call, ret |-> ret]
    /\ UNCHANGED heap

CallAsymptoticHankel ==
    /\ call.fn = "get_order"
    /\ ret.kind = "return"
    /\ prev = NoPrev
    /\ LET x == horizontal_canvas(2, 1, 1, 1).value
       IN  /\ call' = [fn |-> "asymptotic_hankel", x |-> x, l |-> ret.value]
           /\ ret' = asymptotic_hankel(x, ret.value)
    /\ prev' = [call |-> call, ret |-> ret]
    /\ UNCHANGED heap

InitOrder == call \in GetOrderCalls /\ ret = Pending /\ prev = NoPrev /\ heap = NoHeap
NextOrder == CallGetOrder \/ CallGetOrderLarger \/ CallAsymptoticHankel
SpecOrder == InitOrder /\ [][NextOrder]_vars

(***************************************************************************)
(* C6: for a, lambDa > 0, get_order returns exactly 0, 1, ..., l_max with  *)
(* l_max = ceil(2*pi*a/lambDa + 4*(2*pi*a/lambDa)^(1/3) + 2): it starts at *)
(* 0, is contiguous, has length l_max + 1, the element at index i is the   *)
(* order i (so asymptotic_hankel, which uses the order as the column       *)
(* index, fills column i with order i), and for a fixed lambDa l_max is    *)
(* non-decreasing in a.                                                    *)
(***************************************************************************)
C6_OrderVector ==
    /\ (call.fn = "get_order" /\ ret.kind = "return") =>
          LET v  == ret.value
              lm == Len0(v) - 1
          IN  /\ lm >= 0
              /\ DOMAIN v = 0..lm
              /\ v[0] = 0
              /\ \A i \in 0..lm : v[i] = i
              /\ \A i \in 1..lm : v[i] = v[i - 1] + 1
              /\ AtLeastOrderBound(lm, call.a, call.lambDa)
              /\ ~AtLeastOrderBound(lm - 1, call.a, call.lambDa)
              /\ prev.call.fn = "get_order" =>
                    /\ prev.call.lambDa = call.lambDa
                    /\ prev.call.a <= call.a
                    /\ Len0(prev.ret.value) <= Len0(v)
    /\ (call.fn = "asymptotic_hankel" /\ ret # Pending) =>
          /\ ret.kind = "return"
          /\ ret.value.shape = call.x.shape \o <<Len0(call.l)>>
          /\ \A idx \in Indices(ret.value.shape) :
                ret.value.val[idx].order = call.l[Last(idx)]

C6_Witness ==
    /\ call.fn = "get_order"
    /\ ret.kind = "return"
    /\ prev.call.fn = "get_order"
    /\ prev.call.a = 1
    /\ call.a = 3
    /\ call.lambDa = 1
    /\ Len0(prev.ret.value) = 17
    /\ Len0(ret.value) = 33

(***************************************************************************)
(* coeff_b: the Mie coefficient of every order.  The values of the         *)
(* spherical Bessel functions come from scipy.special: sp gives, for every *)
(* order and argument the call needs, jn, jn' and, at k*a, yn and yn'.     *)
(***************************************************************************)
\* a complex number divided by a complex number, both with integer parts
CDiv(num, den) ==
    LET d == den.re * den.re + den.im * den.im
    IN  IF d = 0 THEN [kind |-> "nonfinite"]
        ELSE [kind |-> "finite",
              re |-> Rat(num.re * den.re + num.im * den.im, d),
              im |-> Rat(num.im * den.re - num.re * den.im, d)]

coeff_numerator_sum(bi, ci) == bi + ci

coeff_numerator(bi, ci) == bi - ci

coeff_b(l, k, n, a, sp) ==
    [i \in DOMAIN l |->
        LET jka    == sp.jn[<<l[i], k * a>>]
            jka_p  == sp.jn_p[<<l[i], k * a>>]
            jkna   == sp.jn[<<l[i], k * n * a>>]
            jkna_p == sp.jn_p[<<l[i], k * n * a>>]
            yka    == sp.yn[<<l[i], k * a>>]
            yka_p  == sp.yn_p[<<l[i], k * a>>]
            \* hka = jka + yka*1j, hka_p = jka_p + yka_p*1j
            bi     == jka * jkna_p * n
            ci     == jkna * jka_p
            di     == [re |-> jkna * jka_p, im |-> jkna * yka_p]
            ei     == [re |-> jka * jkna_p * n, im |-> yka * jkna_p * n]
        IN  CDiv([re |-> coeff_numerator(bi, ci), im |-> 0],
                 [re |-> di.re - ei.re, im |-> di.im - ei.im])]

(***************************************************************************)
(* Calls of coeff_b.  The Bessel values are any values that satisfy the    *)
(* Wronskian identity jn(x)*yn'(x) - yn(x)*jn'(x) = 1/x^2 > 0.             *)
(***************************************************************************)
MaxOrders == 2
JValues == {0, 1}
YValues == {-1, 1}

Wronskian(sp, l, x) ==
    \A i \in DOMAIN l :
        sp.jn[<<l[i], x>>] * sp.yn_p[<<l[i], x>>]
            - sp.yn[<<l[i], x>>] * sp.jn_p[<<l[i], x>>] > 0

SpecialTables(l, k, n, a) ==
    LET jArgs == Range0(l) \X {k * a, k * n * a}
        yArgs == Range0(l) \X {k * a}
    IN  { sp \in [jn : [jArgs -> JValues], jn_p : [jArgs -> JValues],
                  yn : [yArgs -> YValues], yn_p : [yArgs -> YValues]] :
            Wronskian(sp, l, k * a) }

CoeffCalls ==
    UNION { { [fn |-> "coeff_b", l |-> arange(0, L), k |-> 1, n |-> n, a |-> a,
               special |-> sp] : sp \in SpecialTables(arange(0, L), 1, n, a) } :
            L \in 1..MaxOrders, n \in 1..2, a \in 1..2 }

CallCoeffB ==
    /\ call.fn = "coeff_b"
    /\ ret = Pending
    /\ ret' = Return(coeff_b(call.l, call.k, call.n, call.a, call.special))
    /\ UNCHANGED <<call, prev, heap>>

InitCoeff == call \in CoeffCalls /\ ret = Pending /\ prev = NoPrev /\ heap = NoHeap
NextCoeff == CallCoeffB
SpecCoeff == InitCoeff /\ [][NextCoeff]_vars

(***************************************************************************)
(* C7: for n = 1 and every order l, coeff_b returns B[l] = 0: the          *)
(* arguments k*a and k*n*a coincide, so the numerator is zero for any      *)
(* values of the Bessel terms, while the denominator is not zero.          *)
(***************************************************************************)
C7_MatchedIndexNoScattering ==
    (call.fn = "coeff_b" /\ call.n = 1 /\ ret.kind = "return") =>
        /\ DOMAIN ret.value = DOMAIN call.l
        /\ \A i \in DOMAIN call.l :
              /\ ret.value[i].kind = "finite"
              /\ ret.value[i].re.num = 0
              /\ ret.value[i].im.num = 0

C7_Witness ==
    /\ call.fn = "coeff_b"
    /\ call.n = 1
    /\ call.a = 2
    /\ ret.kind = "return"
    /\ Len0(call.l) = 2
    /\ call.special.jn[<<1, 2>>] = 1
    /\ call.special.jn_p[<<1, 2>>] = 1
    /\ ret.value[1].kind = "finite"

(***************************************************************************)
(* np.fft.fft2 and np.fft.ifft2 in exact arithmetic.  The samples of a     *)
(* field are elements of the prime field of 61 elements, in which 2 has    *)
(* multiplicative order 60, so that an axis of n samples (n divides 60)    *)
(* has the primitive n-th root of unity 2^(60/n) and the discrete Fourier  *)
(* transform and its inverse are computed exactly, with no rounding.       *)
(***************************************************************************)
ModP(v) == v % 61
MulP(x, y) == ModP(x * y)

RECURSIVE PowP(_, _)
PowP(b, e) ==
    IF e = 0 THEN 1
    ELSE IF e % 2 = 0 THEN LET h == PowP(b, e \div 2) IN MulP(h, h)
    ELSE MulP(b, PowP(b, e - 1))

InvP(u) == PowP(u, 59)
RootP(n) == PowP(2, 60 \div n)

\* f[0] + ... + f[n-1]
RECURSIVE SumP(_, _)
SumP(f, n) == IF n = 0 THEN 0 ELSE ModP(f[n - 1] + SumP(f, n - 1))

\* the 2-D transform with kernel w1^(u*i) * w2^(v*j)
Dft2(x, w1, w2) ==
    LET R == x.shape[1]
        C == x.shape[2]
    IN  Tensor(x.shape, [uv \in Indices(x.shape) |->
            SumP([i \in 0..(R - 1) |->
                    SumP([j \in 0..(C - 1) |->
                            MulP(x.val[<<i, j>>],
                                 MulP(PowP(w1, (uv[1] * i) % R),
                                      PowP(w2, (uv[2] * j) % C)))], C)], R)])

fft2(x) == Dft2(x, InvP(RootP(x.shape[1])), InvP(RootP(x.shape[2])))

ifft2(X) ==
    LET y     == Dft2(X, RootP(X.shape[1]), RootP(X.shape[2]))
        scale == InvP(ModP(X.shape[1] * X.shape[2]))
    IN  Tensor(X.shape, [idx \in Indices(X.shape) |-> MulP(y.val[idx], scale)])

(***************************************************************************)
(* far2near: the near field of a far field image.                          *)
(***************************************************************************)
far2near_fftshift_twice(far_field_image) ==
    fftshift(ifft2(fftshift(far_field_image)))

far2near(far_field_image) == ifftshift(ifft2(fftshift(far_field_image)))

\* The forward transform that corresponds to far2near.
near2far(near_field_image) == ifftshift(fft2(fftshift(near_field_image)))

(***************************************************************************)
(* idhf: the inverse discrete Hankel transform of order 0.  The zeros of   *)
(* the Bessel function and its values are terms: Zero0(m) is the m-th      *)
(* zero j_m, and the weight of zero j_m at output k, with the last zero    *)
(* j_M, is J0(j_m*j_k/j_M) / J1(j_m)^2.                                    *)
(***************************************************************************)
Zero0(m) == [jn_zero |-> m]

\* F_term[:-1] with F_term = y[1:]
idhf_samples_tail(y) == PySlice(y, 2, Len0(y))

idhf_samples(y) ==
    LET F_term == PySlice(y, 1, Len0(y))
    IN  PySlice(F_term, 0, Len0(F_term) - 1)

idhf(res, fov, y) ==
    LET X   == FixDiv(fov, 2)
        n_s == FixDiv(res, 2)
    IN  IF n_s <= 0 THEN Raise("ValueError")
        ELSE
        LET jv_root == [k \in 0..(n_s - 1) |-> Zero0(k + 1)]
            jv_M    == jv_root[n_s - 1]
            jv_m    == PySlice(jv_root, 0, n_s - 1)
            samples == idhf_samples(y)
            \* numerator / denominator, shape (n_s - 1, n_s)
            weight  == Tensor(<<Len0(jv_m), n_s>>,
                          [idx \in Indices(<<Len0(jv_m), n_s>>) |->
                              [J0_of |-> <<jv_m[idx[1]], jv_root[idx[2]], jv_M>>,
                               J1_sq_of |-> jv_m[idx[1]]]])
            \* F_term[:-1][..., None], shape (len, 1)
            column  == Tensor(<<Len0(samples), 1>>,
                          [idx \in Indices(<<Len0(samples), 1>>) |-> samples[idx[1]]])
            Term(w, v) == [weight |-> w, sample |-> v]
            product == BMap(Term, weight, column)
            finish(pr) ==
                LET rows == pr.shape[1]
                    F    == [k \in 0..(pr.shape[2] - 1) |->
                                [prefix |-> Rat(2, X * X),
                                 summation |-> [r \in 0..(rows - 1) |-> pr.val[<<r, k>>]]]]
                    F_x  == [k \in 0..(n_s - 1) |->
                                [zero |-> jv_root[k], times |-> X, over |-> jv_M]]
                IN  Return(<<F, F_x>>)
        \* prefix = 2/(X**2) is computed before the summation
        IN  IF X = 0 THEN Raise("ZeroDivisionError") ELSE Then(product, finish)

(***************************************************************************)
(* apply_filter: the field filtered in the Fourier (2-D) or Hankel (1-D)   *)
(* domain.                                                                 *)
(***************************************************************************)
apply_filter(res, fov, E, filter) ==
    IF ndim(E) = 2
    THEN LET E_fft == fft2(E)
             inverse(E_fft_filtered) == Return(ifft2(E_fft_filtered))
         IN  Then(BMap(MulP, E_fft, filter), inverse)
    ELSE IF ndim(E) = 1
    THEN LET transform(E_dht_filtered) ==
                idhf(res, fov, [i \in 0..(E_dht_filtered.shape[1] - 1) |->
                                    E_dht_filtered.val[<<i>>]])
         IN  Then(BMap(MulP, E, filter), transform)
    ELSE Return(None)

(***************************************************************************)
(* Calls of the domain transforms.  A 2-D field is the sum of two point    *)
(* sources of amplitudes 1 and 2; a 1-D field has small sample values.     *)
(***************************************************************************)
MaxSide == 4
MaxHankelRes == 6
MaxSample == 2

PointSources(N) ==
    { Tensor(<<N, N>>, [idx \in Indices(<<N, N>>) |->
            (IF idx = p1 THEN 1 ELSE 0) + (IF idx = p2 THEN 2 ELSE 0)]) :
        p1 \in Indices(<<N, N>>), p2 \in Indices(<<N, N>>) }

Far2NearCalls ==
    UNION { { [fn |-> "far2near", far_field |-> F] : F \in PointSources(N) } :
            N \in 1..MaxSide }

Samples(len) == [0..(len - 1) -> 0..MaxSample]

IdhfCalls ==
    UNION { { [fn |-> "idhf", res |-> r, fov |-> f, y |-> y] :
                y \in Samples((r \div 2) + 1) } :
            r \in 1..MaxHankelRes, f \in 1..MaxFov }

\* a 1-D field with its 1-D filter, a 2-D field with its 2-D filter, and a
\* field with three axes
ApplyFilterCalls ==
    UNION { { [fn |-> "apply_filter", res |-> r, fov |-> 2, E |-> AsTensor1(y),
               filter |-> AsTensor1(bandpass_filter(r, 2, Rat(0, 1), Rat(na, NADen), 1).value)] :
                y \in Samples((r \div 2) + 1) } :
            r \in 2..MaxHankelRes, na \in 0..1 }
    \cup
    UNION { { [fn |-> "apply_filter", res |-> N, fov |-> 2, E |-> F,
               filter |-> AsTensor2(bandpass_filter(N, 2, Rat(0, 1), Rat(1, NADen), 2).value)] :
                F \in PointSources(N) } :
            N \in 1..(MaxSide - 1) }
    \cup
    { [fn |-> "apply_filter", res |-> r, fov |-> 2,
       E |-> Tensor(<<r, r, 1>>, [idx \in Indices(<<r, r, 1>>) |-> 1]),
       filter |-> AsTensor2(bandpass_filter(r, 2, Rat(0, 1), Rat(1, NADen), 2).value)] :
        r \in 1..2 }

CallFar2Near ==
    /\ call.fn = "far2near"
    /\ ret = Pending
    /\ ret' = Return(far2near(call.far_field))
    /\ UNCHANGED <<call, prev, heap>>

\* the caller transforms the returned near field forward again
CallNear2Far ==
    /\ call.fn = "far2near"
    /\ ret.kind = "return"
    /\ call' = [fn |-> "near2far", near_field |-> ret.value]
    /\ ret' = Return(near2far(ret.value))
    /\ prev' = [call |-> call, ret |-> ret]
    /\ UNCHANGED heap

CallIdhf ==
    /\ call.fn = "idhf"
    /\ ret = Pending
    /\ ret' = idhf(call.res, call.fov, call.y)
    /\ UNCHANGED <<call, prev, heap>>

\* the caller transforms again after changing the first or the last sample
CallIdhfPerturbed ==
    /\ call.fn = "idhf"
    /\ ret.kind = "return"
    /\ prev = NoPrev
    /\ \E i \in {0, Len0(call.y) - 1}, v \in 0..MaxSample :
          LET y2 == [call.y EXCEPT ![i] = v]
          IN  /\ call' = [call EXCEPT !.y = y2]
              /\ ret' = idhf(call.res, call.fov, y2)
    /\ prev' = [call |-> call, ret |-> ret]
    /\ UNCHANGED heap

CallApplyFilter ==
    /\ call.fn = "apply_filter"
    /\ ret = Pending
    /\ ret' = apply_filter(call.res, call.fov, call.E, call.filter)
    /\ UNCHANGED <<call, prev, heap>>

InitTransform ==
    /\ call \in (Far2NearCalls \cup IdhfCalls \cup ApplyFilterCalls)
    /\ ret = Pending
    /\ prev = NoPrev
    /\ heap = NoHeap
NextTransform ==
    \/ CallFar2Near
    \/ CallNear2Far
    \/ CallIdhf
    \/ CallIdhfPerturbed
    \/ CallApplyFilter
SpecTransform == InitTransform /\ [][NextTransform]_vars

(***************************************************************************)
(* C5: for every square array F of side N >= 1, far2near followed by the   *)
(* corresponding forward transform ifftshift(fft2(fftshift(.))) returns F  *)
(* at every index.                                                         *)
(***************************************************************************)
C5_Far2NearRoundTrip ==
    (call.fn = "near2far" /\ ret.kind = "return") =>
        /\ ret.value.shape = prev.call.far_field.shape
        /\ \A idx \in Indices(ret.value.shape) :
              ret.value.val[idx] = prev.call.far_field.val[idx]

C5_Witness ==
    /\ call.fn = "near2far"
    /\ ret.kind = "return"
    /\ ret.value.shape = <<3, 3>>
    /\ ret.value.val[<<0, 1>>] = 1
    /\ ret.value.val[<<2, 2>>] = 2
    /\ call.near_field # ret.value

(***************************************************************************)
(* C10: for even res >= 4 and an input y of length floor(res/2) + 1, idhf  *)
(* sums over exactly the samples y[1] .. y[len(y)-2], pairing y[m] with    *)
(* the m-th Bessel zero (m = 1 .. floor(res/2) - 1, all zeros but the      *)
(* last), so y[0] and y[len(y)-1] never influence the output; F and F_x    *)
(* both have length floor(res/2), which is what apply_filter returns for a *)
(* 1-D field.                                                              *)
(***************************************************************************)
HankelCase ==
    /\ call.fn \in {"idhf", "apply_filter"}
    /\ call.res % 2 = 0
    /\ call.res >= 4
    /\ call.fov >= 2
    /\ call.fn = "idhf" => Len0(call.y) = (call.res \div 2) + 1
    /\ call.fn = "apply_filter" =>
          (ndim(call.E) = 1 /\ call.E.shape[1] = (call.res \div 2) + 1)
    /\ ret # Pending

InitSelect ==
    /\ call \in (CanvasCalls \cup LegendreCalls \cup BandpassCalls
                    \cup ScatterCalls \cup FarFieldCalls \cup ApplyFilterCalls)
    /\ ret = Pending
    /\ prev = NoPrev
    /\ heap = NoHeap
NextSelect ==
    \/ CallHorizontalCanvas
    \/ CallAsymptoticLegendre
    \/ CallBandpassFilter
    \/ CallScatterMatrix
    \/ CallFarField
    \/ CallApplyFilter
SpecSelect == InitSelect /\ [][NextSelect]_vars

UnsupportedSelector ==
    \/ /\ call.fn \in {"horizontal_canvas", "asymptotic_legendre", "bandpass_filter",
                       "scatter_matrix", "far_field"}
       /\ call.dimention \notin {1, 2}
    \/ call.fn = "apply_filter" /\ ndim(call.E) \notin {1, 2}
    \/ call.fn = "scatter_matrix" /\ call.option \notin {"far", "near"}

(***************************************************************************)
(* C4: every call that supplies an unsupported selector (a dimention       *)
(* outside {1, 2}, a field whose number of axes is neither 1 nor 2 passed  *)
(* to apply_filter, an option outside {'far', 'near'}) ends in an          *)
(* invalid-argument error and returns no value.                            *)
(***************************************************************************)
C4_UnsupportedSelectorRaises ==
    (UnsupportedSelector /\ ret # Pending) => ret = Raise("ValueError")

(***************************************************************************)
(* Storage.  A numpy array object is a window onto a buffer: `base' names  *)
(* the buffer in `heap', `start' is the offset of the window's first       *)
(* element and `shape' its extent.  np.zeros, the fft routines, ufuncs and *)
(* np.roll (inside fftshift / ifftshift) allocate a new buffer for their   *)
(* result; basic slicing a[r0:r1, c0:c1] returns a window onto the buffer  *)
(* of a.                                                                   *)
(***************************************************************************)
ndarray(base, start, shape) == [base |-> base, start |-> start, shape |-> shape]

\* the value of the array object x in storage h, as an array of rows
Load(h, x) ==
    [i \in 0..(x.shape[1] - 1) |-> [j \in 0..(x.shape[2] - 1) |->
        h[x.base][x.start[1] + i][x.start[2] + j]]]

\* x[i, j] = v
SetItem(h, x, i, j, v) ==
    [h EXCEPT ![x.base][x.start[1] + i][x.start[2] + j] = v]

\* the array object of a buffer allocated next in storage h for the value a
NewArray(h, a) ==
    ndarray(Len(h) + 1, <<0, 0>>, <<Len0(a), IF Len0(a) = 0 THEN 0 ELSE Len0(a[0])>>)

\* x[r0:r1, c0:c1]: a window onto the buffer of x
BasicSlice2(x, r0, r1, c0, c1) ==
    LET rlo == SliceIdx(r0, x.shape[1])
        rhi == SliceIdx(r1, x.shape[1])
        clo == SliceIdx(c0, x.shape[2])
        chi == SliceIdx(c1, x.shape[2])
    IN  ndarray(x.base, <<x.start[1] + rlo, x.start[2] + clo>>,
                <<Max(rhi - rlo, 0), Max(chi - clo, 0)>>)

\* crop_field on an array object: what it returns is E[startIdx:endIdx+1, ...]
crop_field_object(res, E) ==
    LET imsize   == E.shape[1]
        cropsize == res
        startIdx == crop_startIdx(imsize, cropsize)
        endIdx   == startIdx + cropsize - 1
    IN  BasicSlice2(E, startIdx, endIdx + 1, startIdx, endIdx + 1)

\* a 2-D tensor as an array of rows
AsArray2(T) ==
    [i \in 0..(T.shape[1] - 1) |-> [j \in 0..(T.shape[2] - 1) |-> T.val[<<i, j>>]]]

\* two array objects share storage when their windows onto one buffer overlap
SharesStorage(x, y) ==
    /\ x.base = y.base
    /\ x.start[1] < y.start[1] + y.shape[1]
    /\ y.start[1] < x.start[1] + x.shape[1]
    /\ x.start[2] < y.start[2] + y.shape[2]
    /\ y.start[2] < x.start[2] + x.shape[2]

\* the array arguments of a call
ArgArrays(c) ==
    IF c.fn = "crop_field" THEN {c.E}
    ELSE IF c.fn = "far2near" THEN {c.far_field}
    ELSE IF c.fn = "apply_filter" THEN {c.E, c.filter}
    ELSE {}

Transforms ==
    {"crop_field", "far2near", "apply_filter", "bandpass_filter", "get_phase_shift",
     "far_field"}

(***************************************************************************)
(* Calls on array objects.  A start state holds the argument arrays of one *)
(* call in storage; the call returns an array object; the caller then      *)
(* writes an element of what was returned.                                 *)
(***************************************************************************)
MaxStoreRes == 2

\* a square field whose sample (i, j) is its own position in the buffer
IndexField(side) == [i \in 0..(side - 1) |-> [j \in 0..(side - 1) |-> i * side + j]]

WholeArray(base, side) == ndarray(base, <<0, 0>>, <<side, side>>)

CropStorage ==
    { [call |-> [fn |-> "crop_field", res |-> r, E |-> WholeArray(1, pad(r, 1, p)[1])],
       heap |-> <<IndexField(pad(r, 1, p)[1])>>] :
        r \in 1..MaxStoreRes, p \in 0..MaxPad }

Far2NearStorage ==
    UNION { { [call |-> [fn |-> "far2near", far_field |-> WholeArray(1, N)],
               heap |-> <<AsArray2(F)>>] : F \in PointSources(N) } :
            N \in 1..MaxStoreRes }

ApplyFilterStorage ==
    UNION { { [call |-> [fn |-> "apply_filter", res |-> N, fov |-> 2,
                         E |-> WholeArray(1, N), filter |-> WholeArray(2, N)],
               heap |-> <<AsArray2(F),
                          bandpass_filter(N, 2, Rat(0, 1), Rat(1, NADen), 2).value>>] :
                F \in PointSources(N) } :
            N \in 1..MaxStoreRes }

ScalarStorage ==
    { [call |-> c, heap |-> NoHeap] :
        c \in { b \in BandpassCalls : b.res <= MaxStoreRes /\ b.fov = 1 /\ b.dimention = 2 }
              \cup { q \in PhaseCalls : q.res <= MaxStoreRes /\ q.fov = 1 /\ q.d = 1 }
              \cup { f \in FarFieldCalls : f.res = 2 /\ f.fov = 1 /\ f.dimention = 2 } }

\* the result of a call that builds its result in a buffer of its own
ReturnsNewArray(outcome) ==
    IF outcome.kind = "return"
    THEN /\ ret' = Return(NewArray(heap, outcome.value))
         /\ heap' = Append(heap, outcome.value)
    ELSE /\ ret' = outcome
         /\ heap' = heap

CallCropFieldObject ==
    /\ call.fn = "crop_field"
    /\ ret = Pending
    /\ ret' = Return(crop_field_object(call.res, call.E))
    /\ UNCHANGED <<call, prev, heap>>

CallFar2NearObject ==
    /\ call.fn = "far2near"
    /\ ret = Pending
    /\ ReturnsNewArray(Return(AsArray2(far2near(AsTensor2(Load(heap, call.far_field))))))
    /\ UNCHANGED <<call, prev>>

CallApplyFilterObject ==
    /\ call.fn = "apply_filter"
    /\ ret = Pending
    /\ LET E_filtered == apply_filter(call.res, call.fov, AsTensor2(Load(heap, call.E)),
                                      AsTensor2(Load(heap, call.filter)))
       IN  ReturnsNewArray(IF E_filtered.kind = "return"
                           THEN Return(AsArray2(E_filtered.value)) ELSE E_filtered)
    /\ UNCHANGED <<call, prev>>

CallBandpassFilterObject ==
    /\ call.fn = "bandpass_filter"
    /\ ret = Pending
    /\ ReturnsNewArray(bandpass_filter(call.res, call.fov, call.NA_in, call.NA_out,
                                       call.dimention))
    /\ UNCHANGED <<call, prev>>

CallGetPhaseShiftObject ==
    /\ call.fn = "get_phase_shift"
    /\ ret = Pending
    /\ ReturnsNewArray(Return(get_phase_shift(call.res, call.fov, call.k, call.d)))
    /\ UNCHANGED <<call, prev>>

CallFarFieldObject ==
    /\ call.fn = "far_field"
    /\ ret = Pending
    /\ LET E_far == far_field(call.res, call.fov, call.z, call.a, call.n, call.lambDa,
                              call.scale, call.dimention)
       IN  ReturnsNewArray(IF E_far.kind = "return"
                           THEN Return(AsArray2(E_far.value)) ELSE E_far)
    /\ UNCHANGED <<call, prev>>

\* the caller writes an element of the returned array
WriteResult ==
    /\ call.fn \in Transforms
    /\ ret.kind = "return"
    /\ \E i \in 0..(ret.value.shape[1] - 1), j \in 0..(ret.value.shape[2] - 1),
          v \in 0..MaxSample :
          /\ heap' = SetItem(heap, ret.value, i, j, v)
          /\ call' = [fn |-> "setitem", target |-> ret.value, index |-> <<i, j>>,
                      value |-> v]
    /\ ret' = Return(None)
    /\ prev' = [call |-> call, ret |-> ret]

InitStorage ==
    /\ \E s \in CropStorage \cup Far2NearStorage \cup ApplyFilterStorage
                \cup ScalarStorage :
          call = s.call /\ heap = s.heap
    /\ ret = Pending
    /\ prev = NoPrev
NextStorage ==
    \/ CallCropFieldObject
    \/ CallFar2NearObject
    \/ CallApplyFilterObject
    \/ CallBandpassFilterObject
    \/ CallGetPhaseShiftObject
    \/ CallFarFieldObject
    \/ WriteResult
SpecStorage == InitStorage /\ [][NextStorage]_vars

\* a transform returns
TransformReturns == call.fn \in Transforms /\ ret = Pending /\ ret'.kind = "return"
\* the returned array is written
ResultWritten == call.fn \in Transforms /\ ret.kind = "return" /\ call'.fn = "setitem"

(***************************************************************************)
(* C11: for crop_field, far2near, apply_filter, bandpass_filter,           *)
(* get_phase_shift and far_field, no argument array is modified during the *)
(* call, the returned array shares no storage with any argument array, and *)
(* a write to an element of the result after the call never changes the    *)
(* array that was passed in.                                               *)
(***************************************************************************)
C11_ResultIsFresh ==
    [][ /\ TransformReturns =>
              \A x \in ArgArrays(call) :
                  /\ Load(heap', x) = Load(heap, x)
                  /\ ~SharesStorage(ret'.value, x)
        /\ ResultWritten =>
              \A x \in ArgArrays(call) : Load(heap', x) = Load(heap, x) ]_vars

=============================================================================
